---- MODULE Spec2Model ----
(***************************************************************************)
(* A model of the Telegram trading bot (src/bot.py) and of its store       *)
(* (src/database.py).                                                      *)
(*                                                                         *)
(* Strings that the code inspects (message texts, callback data) are       *)
(* tuples of one-character strings, so that startswith, replace, split,    *)
(* len and the number parsers are computed as the code computes them.      *)
(* Python floats are exact decimal fractions [n, d] with d a power of ten. *)
(***************************************************************************)
EXTENDS Integers, Sequences, FiniteSets, TLC

----------------------------------------------------------------------------
(* Bounds of the model *)

\* handler invocations in one behaviour
MaxRequests == 4
\* the wallet balances the ledger may report, in whole SOL
MaxBalanceSol == 1
\* the token balances the ledger may report, in smallest units
MaxTokenBalance == 3
\* concurrent update_position calls in the store specification
MaxCalls == 3
MaxOps == 3

----------------------------------------------------------------------------
(* Program constants *)

LAMPORTS_PER_SOL == 1000000000
DEFAULT_SLIPPAGE == 15

\* Python's None where a text is expected (texts are tuples), and where a
\* dict is expected (dicts are records); a table without a row for a key
None == <<"None">>
NoneDict == [none |-> TRUE]
NoRow == [absent |-> TRUE]
Users == {1, 2}

----------------------------------------------------------------------------
(* Strings *)

Rep(c, k) == [i \in 1..k |-> c]

\* str.startswith
StartsWith(s, p) == Len(s) >= Len(p) /\ SubSeq(s, 1, Len(p)) = p

\* str.replace(a, b) for a single character a
ReplaceChar(s, a, b) == [i \in 1..Len(s) |-> IF s[i] = a THEN b ELSE s[i]]

\* s[k:] for the prefix lengths the handlers use
DropPrefix(s, k) == SubSeq(s, k + 1, Len(s))

\* the index of the first "_" of s, 0 when there is none
FirstUnderscore(s) ==
    IF \E i \in 1..Len(s) : s[i] = "_"
    THEN CHOOSE i \in 1..Len(s) : s[i] = "_" /\ \A j \in 1..(i - 1) : s[j] # "_"
    ELSE 0

\* data.split("_")[1]: the text between the first and the second "_"
SplitField1(s) ==
    LET rest == DropPrefix(s, FirstUnderscore(s))
        stop == FirstUnderscore(rest)
    IN  IF stop = 0 THEN rest ELSE SubSeq(rest, 1, stop - 1)

Digits == <<"0", "1", "2", "3", "4", "5", "6", "7", "8", "9">>
IsDigit(c) == \E i \in 1..10 : Digits[i] = c
DigitValue(c) == (CHOOSE i \in 1..10 : Digits[i] = c) - 1

RECURSIVE DigitsValue(_)
DigitsValue(s) ==
    IF Len(s) = 0 THEN 0
    ELSE 10 * DigitsValue(SubSeq(s, 1, Len(s) - 1)) + DigitValue(s[Len(s)])

RECURSIVE Pow10(_)
Pow10(k) == IF k = 0 THEN 1 ELSE 10 * Pow10(k - 1)

AllDigits(s) == \A i \in 1..Len(s) : IsDigit(s[i])

Invalid == [invalid |-> TRUE]

\* the floats float(s) returns for "nan", "inf" and "infinity"
NaN == [nan |-> TRUE]
Inf(neg) == [inf |-> TRUE, neg |-> neg]
IsFinite(x) == "n" \in DOMAIN x

\* a decimal fraction in lowest decimal form: 0.50 and 0.5 are one float
RECURSIVE Normal(_)
Normal(x) ==
    IF x.d > 1 /\ x.n % 10 = 0 THEN Normal([n |-> x.n \div 10, d |-> x.d \div 10])
    ELSE x

\* int(s) for a decimal literal with an optional sign; int(s) raises on
\* anything else
IntParses(s) ==
    LET body == IF Len(s) > 0 /\ (s[1] = "-" \/ s[1] = "+") THEN Tail(s) ELSE s
    IN  Len(body) > 0 /\ AllDigits(body)

ParseInt(s) ==
    LET neg == Len(s) > 0 /\ s[1] = "-"
        body == IF Len(s) > 0 /\ (s[1] = "-" \/ s[1] = "+") THEN Tail(s) ELSE s
    IN  IF neg THEN 0 - DigitsValue(body) ELSE DigitsValue(body)

\* float(s): sign, then digits with at most one ".", or nan, inf, infinity;
\* float(s) raises ValueError on anything else
ParseFloat(s) ==
    LET neg == Len(s) > 0 /\ s[1] = "-"
        body == IF Len(s) > 0 /\ (s[1] = "-" \/ s[1] = "+") THEN Tail(s) ELSE s
        dots == {i \in 1..Len(body) : body[i] = "."}
        dot == IF dots = {} THEN Len(body) + 1 ELSE CHOOSE i \in dots : TRUE
        whole == SubSeq(body, 1, dot - 1)
        frac == SubSeq(body, dot + 1, Len(body))
        mag == DigitsValue(whole) * Pow10(Len(frac)) + DigitsValue(frac)
    IN  IF body = <<"n", "a", "n">> THEN NaN
        ELSE IF body \in {<<"i", "n", "f">>, <<"i", "n", "f", "i", "n", "i", "t", "y">>}
        THEN Inf(neg)
        ELSE IF Cardinality(dots) > 1 \/ ~AllDigits(whole) \/ ~AllDigits(frac)
           \/ Len(whole) + Len(frac) = 0
        THEN Invalid
        ELSE Normal([n |-> IF neg THEN 0 - mag ELSE mag, d |-> Pow10(Len(frac))])

RECURSIVE FormatNat(_)
FormatNat(k) ==
    IF k < 10 THEN <<Digits[k + 1]>>
    ELSE FormatNat(k \div 10) \o <<Digits[(k % 10) + 1]>>

RECURSIVE FormatFrac(_, _)
FormatFrac(k, d) ==
    IF d = 1 THEN <<>>
    ELSE <<Digits[(k \div (d \div 10)) + 1]>> \o FormatFrac(k % (d \div 10), d \div 10)

\* str(x) of a non-negative float: "1.0", "0.5", "0.25", "nan", "inf"
FormatFloat(x) ==
    IF x = NaN THEN <<"n", "a", "n">>
    ELSE IF ~IsFinite(x)
    THEN (IF x.neg THEN <<"-">> ELSE <<>>) \o <<"i", "n", "f">>
    ELSE IF x.d = 1 THEN FormatNat(x.n) \o <<".", "0">>
    ELSE FormatNat(x.n \div x.d) \o <<".">> \o FormatFrac(x.n % x.d, x.d)

----------------------------------------------------------------------------
(* Floats *)

Float(n, d) == [n |-> n, d |-> d]
Zero == Float(0, 1)

\* an integer stored in a REAL column
Real(i) == Float(i, 1)

\* a comparison of the numerators alone: lamports against SOL
FloatLess_numerators(a, b) == a.n < b.n

\* a < b for two floats whose denominators are powers of ten; the quotient
\* form keeps the products inside TLC's integers (floor(x) < k iff x < k)
FloatLess(a, b) ==
    IF a.d >= b.d THEN (a.n \div (a.d \div b.d)) < b.n
    ELSE a.n * (b.d \div a.d) < b.n

\* balance < amount for a finite balance: every comparison with nan is False
BalanceLess(balance, amount) ==
    IF amount = NaN THEN FALSE
    ELSE IF ~IsFinite(amount) THEN ~amount.neg
    ELSE FloatLess(balance, amount)

\* amount <= 0
NotPositive(amount) ==
    IF amount = NaN THEN FALSE
    ELSE IF ~IsFinite(amount) THEN amount.neg
    ELSE amount.n <= 0

RECURSIVE Log10(_)
Log10(d) == IF d < 10 THEN 0 ELSE 1 + Log10(d \div 10)

\* str(int(x * LAMPORTS_PER_SOL)) for a float x >= 0 of at most nine
\* decimals: the decimal point moves nine places, which keeps sums such as
\* 5 SOL = 5000000000 lamports out of TLC's 32-bit integers
LamportsStr(x) ==
    IF x.n = 0 THEN <<"0">>
    ELSE FormatNat(x.n) \o Rep("0", Log10(LAMPORTS_PER_SOL) - Log10(x.d))

----------------------------------------------------------------------------
(* Addresses *)

B58 == <<"1", "2", "3", "4", "5", "6", "7", "8", "9",
         "A", "B", "C", "D", "E", "F", "G", "H", "J", "K", "L", "M", "N",
         "P", "Q", "R", "S", "T", "U", "V", "W", "X", "Y", "Z",
         "a", "b", "c", "d", "e", "f", "g", "h", "i", "j", "k", "m", "n",
         "o", "p", "q", "r", "s", "t", "u", "v", "w", "x", "y", "z">>
IsB58(c) == \E i \in 1..Len(B58) : B58[i] = c
B58Value(c) == (CHOOSE i \in 1..Len(B58) : B58[i] = c) - 1

RECURSIVE LeadingOnes(_)
LeadingOnes(s) ==
    IF Len(s) > 0 /\ s[1] = "1" THEN 1 + LeadingOnes(Tail(s)) ELSE 0

RECURSIVE B58Number(_)
B58Number(s) ==
    IF Len(s) = 0 THEN 0
    ELSE 58 * B58Number(SubSeq(s, 1, Len(s) - 1)) + B58Value(s[Len(s)])

RECURSIVE ByteLen(_)
ByteLen(k) == IF k = 0 THEN 0 ELSE 1 + ByteLen(k \div 256)

\* the number of bytes base58 decoding yields: one zero byte per leading
\* "1", then the bytes of the number the remaining digits spell (the
\* remainder is at most five digits long in every text of the model)
B58DecodedLen(s) ==
    LeadingOnes(s) + ByteLen(B58Number(DropPrefix(s, LeadingOnes(s))))

\* Pubkey.from_string(text) succeeds: base58, and 32 bytes
PubkeyParses(s) ==
    /\ \A i \in 1..Len(s) : IsB58(s[i])
    /\ B58DecodedLen(s) = 32

SOL_MINT == <<"S", "o">> \o Rep("1", 40) \o <<"2">>
TokenA == Rep("1", 31) \o <<"A">>
TokenB == Rep("1", 31) \o <<"B">>
Tokens == {TokenA, TokenB}

----------------------------------------------------------------------------
(* State *)

VARIABLES
    users,      \* table users: telegram_id -> row, or NoRow
    settings,   \* table settings: telegram_id -> row, or NoRow
    trades,     \* table trades, in insertion order
    positions,  \* table positions: <<telegram_id, token_address>> -> amount, or NoRow
    user_data,  \* context.user_data of each user
    ledger,     \* the transactions handed to the ledger, in order
    calls,      \* the network calls of the latest handler invocation, in order
    req,        \* the update the latest handler invocation was given
    reply,      \* what the latest handler invocation told the user
    nreq,       \* handler invocations so far
    txn,        \* the update_position calls in flight (store specification)
    before,     \* the positions table those calls started from
    conns,      \* connections a store operation opened and did not close
    op,         \* the latest operation called directly, with what it returned
    reads,      \* per user, the get_settings result since the last update_settings
    messages    \* the chat log, where one is kept: per user, the tokens whose
                \* info message with buy buttons is in the chat

store == <<users, settings, trades, positions>>
vars == <<users, settings, trades, positions, user_data, ledger, calls, req,
          reply, nreq, txn, before, conns, op, reads, messages>>

----------------------------------------------------------------------------
(* Persistent store: src/database.py.  Every operation opens a connection  *)
(* first; `up` is whether that connection and its statements succeed.      *)

DefaultSettings ==
    [slippage |-> DEFAULT_SLIPPAGE, auto_buy_amount |-> Float(1, 10),
     mev_protection |-> TRUE, priority_fee |-> "medium"]

\* a get_user whose SELECT has no WHERE clause: the first row of the table
get_user_any_row(us, telegram_id, up) ==
    IF up /\ \E t \in DOMAIN us : us[t] # NoRow
    THEN us[CHOOSE t \in DOMAIN us : us[t] # NoRow /\ \A o \in DOMAIN us :
                                         us[o] # NoRow => t <= o]
    ELSE NoneDict

\* a get_user that reads the newest row of the table
get_user_newest_row(us, telegram_id, up) ==
    IF up /\ \E t \in DOMAIN us : us[t] # NoRow
    THEN us[CHOOSE t \in DOMAIN us : us[t] # NoRow /\ \A o \in DOMAIN us :
                                         us[o] # NoRow => t >= o]
    ELSE NoneDict

\* get_user returns the row, or None when there is none or the store fails
get_user(us, telegram_id, up) ==
    IF up /\ us[telegram_id] # NoRow THEN us[telegram_id] ELSE NoneDict

\* a get_settings that does not look at the table
get_settings_defaults(st, telegram_id, up) == DefaultSettings

\* get_settings returns the row, or the defaults
get_settings(st, telegram_id, up) ==
    IF up /\ st[telegram_id] # NoRow THEN st[telegram_id] ELSE DefaultSettings

\* INSERT OR REPLACE: an existing telegram_id is no obstacle
create_user_ok_replace(us, telegram_id, up) == up

\* create_user inserts the user row and its settings row in one transaction;
\* the insert fails on an existing telegram_id (UNIQUE)
create_user_ok(us, telegram_id, up) == up /\ us[telegram_id] = NoRow

\* a create_user whose first INSERT stays when the transaction fails later
create_user_users_autocommit(us, telegram_id, username, wallet_address, private_key, up) ==
    IF us[telegram_id] = NoRow
    THEN [us EXCEPT ![telegram_id] =
            [telegram_id |-> telegram_id, username |-> username,
             wallet_address |-> wallet_address, private_key |-> private_key]]
    ELSE us

create_user_users(us, telegram_id, username, wallet_address, private_key, up) ==
    IF create_user_ok(us, telegram_id, up)
    THEN [us EXCEPT ![telegram_id] =
            [telegram_id |-> telegram_id, username |-> username,
             wallet_address |-> wallet_address, private_key |-> private_key]]
    ELSE us

\* INSERT INTO settings (telegram_id): the other columns take their defaults
SettingsRow(telegram_id) ==
    [telegram_id |-> telegram_id, slippage |-> DEFAULT_SLIPPAGE,
     auto_buy_amount |-> Float(1, 10), mev_protection |-> TRUE,
     priority_fee |-> "medium"]

create_user_settings(us, st, telegram_id, up) ==
    IF create_user_ok(us, telegram_id, up)
    THEN [st EXCEPT ![telegram_id] = SettingsRow(telegram_id)]
    ELSE st

SettingsKeys == {"slippage", "auto_buy_amount", "mev_protection", "priority_fee"}

\* an update_settings that applies whatever column it is given
update_settings_any_key(st, telegram_id, key, value, up) ==
    IF up /\ st[telegram_id] # NoRow /\ key \in DOMAIN st[telegram_id]
    THEN [st EXCEPT ![telegram_id] = [st[telegram_id] EXCEPT ![key] = value]]
    ELSE st

\* update_settings applies one key of the allow-list to the user's row
update_settings(st, telegram_id, key, value, up) ==
    IF up /\ key \in SettingsKeys /\ st[telegram_id] # NoRow
    THEN [st EXCEPT ![telegram_id] = [st[telegram_id] EXCEPT ![key] = value]]
    ELSE st

\* a log_trade that binds amount_in and amount_out the wrong way round
log_trade_swapped(tr, telegram_id, token_address, trade_type, amount_in, amount_out, signature, up) ==
    IF up
    THEN Append(tr, [telegram_id |-> telegram_id, token_address |-> token_address,
                     trade_type |-> trade_type, amount_in |-> amount_out,
                     amount_out |-> amount_in, signature |-> signature,
                     status |-> "completed"])
    ELSE tr

\* a log_trade that writes over the newest row instead of adding one
log_trade_replace(tr, telegram_id, token_address, trade_type, amount_in, amount_out, signature, up) ==
    LET row == [telegram_id |-> telegram_id, token_address |-> token_address,
                trade_type |-> trade_type, amount_in |-> amount_in,
                amount_out |-> amount_out, signature |-> signature,
                status |-> "completed"]
    IN  IF ~up THEN tr
        ELSE IF tr = <<>> THEN <<row>>
        ELSE [tr EXCEPT ![Len(tr)] = row]

\* log_trade appends one row
log_trade(tr, telegram_id, token_address, trade_type, amount_in, amount_out, signature, up) ==
    IF up
    THEN Append(tr, [telegram_id |-> telegram_id, token_address |-> token_address,
                     trade_type |-> trade_type, amount_in |-> amount_in,
                     amount_out |-> amount_out, signature |-> signature,
                     status |-> "completed"])
    ELSE tr

\* DO UPDATE SET amount = excluded.amount: the new amount replaces the old
upsert_amount_overwrite(old, amount) == [amount |-> amount]

\* INSERT ... ON CONFLICT (telegram_id, token_address)
\* DO UPDATE SET amount = amount + excluded.amount
upsert_amount(old, amount) ==
    IF old = NoRow THEN [amount |-> amount] ELSE [amount |-> old.amount + amount]

\* a get_positions without the filter on the amount
get_positions_unfiltered(ps, telegram_id, up) ==
    IF up THEN {k \in DOMAIN ps : k[1] = telegram_id /\ ps[k] # NoRow} ELSE {}

\* get_positions: the user's rows with amount > 0
get_positions(ps, telegram_id, up) ==
    IF up
    THEN {k \in DOMAIN ps : k[1] = telegram_id /\ ps[k] # NoRow /\ ps[k].amount > 0}
    ELSE {}

----------------------------------------------------------------------------
(* Chain reader: SolanaTrader.get_balance, get_token_balance *)

RpcError == [error |-> "RpcError"]

\* what the ledger may answer to a balance query, in lamports
BalanceValues == {k * LAMPORTS_PER_SOL : k \in 0..MaxBalanceSol}
BalanceAnswers ==
    {[value |-> v] : v \in BalanceValues} \cup {[no_value |-> TRUE], RpcError}

\* a get_balance that answers 1.0 when the ledger call raises
get_balance_one_on_error(answer) ==
    IF answer = RpcError THEN Float(LAMPORTS_PER_SOL, LAMPORTS_PER_SOL)
    ELSE IF "value" \notin DOMAIN answer THEN Zero
    ELSE Float(answer.value, LAMPORTS_PER_SOL)

\* get_balance: value / LAMPORTS_PER_SOL, and 0.0 for no value or an error
get_balance(answer) ==
    IF answer = RpcError \/ "value" \notin DOMAIN answer THEN Zero
    ELSE Float(answer.value, LAMPORTS_PER_SOL)

get_balance_call(pubkey, answer) ==
    [stage |-> "get_balance", pubkey |-> pubkey, resp |-> answer]

\* what the ledger may answer to a token account query: the amounts of the
\* owner's accounts for the mint, in order
TokenAnswers ==
    {[accounts |-> <<>>]} \cup {[accounts |-> <<b>>] : b \in 0..MaxTokenBalance}
        \cup {RpcError}

\* get_token_balance: the first account's amount, 0 for none or an error
get_token_balance(answer) ==
    IF answer = RpcError \/ answer.accounts = <<>> THEN 0 ELSE answer.accounts[1]

get_token_balance_call(wallet, token_address, answer) ==
    [stage |-> "get_token_balance", pubkey |-> wallet, mint |-> token_address,
     resp |-> answer]

----------------------------------------------------------------------------
(* Aggregator client: SolanaTrader.swap_sol_for_token, swap_token_for_sol. *)
(* The answers of the aggregator and of the ledger are inputs; a swap is   *)
(* the result, the network calls made and the transactions sent.           *)

NetError == [error |-> "NetError"]
HTTP_OK == 200

\* str(keypair.pubkey()) of the keypair a private key decodes to
PubkeyOf(private_key) == [pub |-> private_key]

OutAmounts == {500000}

QuoteAnswers ==
    {NetError, [status |-> 500]}
        \cup {[status |-> HTTP_OK, outAmount |-> a] : a \in OutAmounts}
        \cup {[status |-> HTTP_OK]}

\* the unsigned transaction the aggregator builds for a payer
UnsignedTx(id, payer) == [id |-> id, payer |-> payer, signatures |-> {}]

BuildAnswers(id, payer) ==
    {NetError, [status |-> 500],
     [status |-> HTTP_OK],
     [status |-> HTTP_OK, swapTransaction |-> [b64 |-> UnsignedTx(id, payer)]]}

b64decode(blob) == blob.b64

\* the signature the ledger returns for a transaction it accepted
SignatureOf(tx) == [sig |-> tx.id]
SubmitAnswers(id, payer) == {RpcError, [value |-> SignatureOf(UnsignedTx(id, payer))]}

\* the answers one swap can consume: a stage that fails leaves the later
\* stages unasked
NotAsked == [not_asked |-> TRUE]
QuoteFails(qa) == qa = NetError \/ qa.status # HTTP_OK
BuildFails(ba) ==
    ba = NetError \/ ba.status # HTTP_OK \/ "swapTransaction" \notin DOMAIN ba
SwapAnswers(id, payer) ==
    {<<qa, NotAsked, NotAsked>> : qa \in {a \in QuoteAnswers : QuoteFails(a)}}
        \cup {<<qa, ba, NotAsked>> :
                qa \in {a \in QuoteAnswers : ~QuoteFails(a)},
                ba \in {a \in BuildAnswers(id, payer) : BuildFails(a)}}
        \cup {<<qa, ba, sa>> :
                qa \in {a \in QuoteAnswers : ~QuoteFails(a)},
                ba \in {a \in BuildAnswers(id, payer) : ~BuildFails(a)},
                sa \in SubmitAnswers(id, payer)}

Failure(error) == [success |-> FALSE, error |-> error]

\* int(quote.get("outAmount", 0))
OutAmountOf(quote) == IF "outAmount" \in DOMAIN quote THEN quote.outAmount ELSE 0

\* int(slippage * 100)
SlippageBps(slippage) == slippage * 100

quote_call(inputMint, outputMint, amount, slippage, qa) ==
    [stage |-> "quote", inputMint |-> inputMint, outputMint |-> outputMint,
     amount |-> amount, slippageBps |-> SlippageBps(slippage), resp |-> qa]

build_call(qa, wallet_pubkey, ba) ==
    [stage |-> "build", quoteResponse |-> qa, userPublicKey |-> wallet_pubkey,
     wrapAndUnwrapSol |-> TRUE, resp |-> ba]

submit_call(tx_bytes, sa) ==
    [stage |-> "submit", tx |-> tx_bytes, skip_preflight |-> TRUE,
     max_retries |-> 3, resp |-> sa]

\* the bytes handed to send_raw_transaction: the decoded blob as it came
tx_to_send(swap_transaction, private_key) == b64decode(swap_transaction)

\* response.status_code; an answer that is no HTTP response has none
StatusOf(a) == IF "status" \in DOMAIN a THEN a.status ELSE 0

\* a submit that sends the same bytes again when the ledger call fails
swap_submit_retry(private_key, q, b, amount_in, in_sol, qa, ba, sa) ==
    LET tx_bytes == tx_to_send(ba.swapTransaction, private_key)
        s == submit_call(tx_bytes, sa)
    IN  IF sa = RpcError
        THEN [result |-> Failure("RpcError"), calls |-> <<q, b, s, s>>,
              sent |-> <<tx_bytes, tx_bytes>>]
        ELSE [result |->
                 [success |-> TRUE, signature |-> sa.value, amount_in |-> amount_in,
                  amount_out |-> IF in_sol
                                 THEN Float(OutAmountOf(qa), LAMPORTS_PER_SOL)
                                 ELSE OutAmountOf(qa)],
              calls |-> <<q, b, s>>, sent |-> <<tx_bytes>>]

\* submit: decode the blob and hand it to the ledger (bot.py 181-198, 263-280)
swap_submit(private_key, q, b, amount_in, in_sol, qa, ba, sa) ==
    LET tx_bytes == tx_to_send(ba.swapTransaction, private_key)
        s == submit_call(tx_bytes, sa)
    IN  IF sa = RpcError
        THEN [result |-> Failure("RpcError"), calls |-> <<q, b, s>>,
              sent |-> <<tx_bytes>>]
        ELSE [result |->
                 [success |-> TRUE, signature |-> sa.value, amount_in |-> amount_in,
                  amount_out |-> IF in_sol
                                 THEN Float(OutAmountOf(qa), LAMPORTS_PER_SOL)
                                 ELSE OutAmountOf(qa)],
              calls |-> <<q, b, s>>, sent |-> <<tx_bytes>>]

\* build: ask for the swap transaction of the quote (bot.py 161-179, 243-261)
swap_build(private_key, q, amount_in, in_sol, qa, ba, sa) ==
    LET b == build_call(qa, PubkeyOf(private_key), ba)
    IN  IF ba = NetError
        THEN [result |-> Failure("NetError"), calls |-> <<q, b>>, sent |-> <<>>]
        ELSE IF StatusOf(ba) # HTTP_OK
        THEN [result |-> Failure("Failed to create swap transaction"),
              calls |-> <<q, b>>, sent |-> <<>>]
        ELSE IF "swapTransaction" \notin DOMAIN ba
        THEN [result |-> Failure("No swap transaction returned"),
              calls |-> <<q, b>>, sent |-> <<>>]
        ELSE swap_submit(private_key, q, b, amount_in, in_sol, qa, ba, sa)

\* stages that go on to build whatever the status of the quote response
swap_stages_unchecked(private_key, inputMint, outputMint, amount, slippage, amount_in, in_sol, qa, ba, sa) ==
    LET q == quote_call(inputMint, outputMint, amount, slippage, qa)
    IN  IF qa = NetError
        THEN [result |-> Failure("NetError"), calls |-> <<q>>, sent |-> <<>>]
        ELSE swap_build(private_key, q, amount_in, in_sol, qa, ba, sa)

\* quote, then build, then submit, as both swaps run them (bot.py 143-202
\* and 225-284); amount_in and in_sol say what a success reports
swap_stages(private_key, inputMint, outputMint, amount, slippage, amount_in, in_sol, qa, ba, sa) ==
    LET q == quote_call(inputMint, outputMint, amount, slippage, qa)
    IN  IF qa = NetError
        THEN [result |-> Failure("NetError"), calls |-> <<q>>, sent |-> <<>>]
        ELSE IF StatusOf(qa) # HTTP_OK
        THEN [result |-> Failure("Failed to get quote"), calls |-> <<q>>,
              sent |-> <<>>]
        ELSE swap_build(private_key, q, amount_in, in_sol, qa, ba, sa)

\* swap_sol_for_token: a buy of token_address for amount_sol
swap_sol_for_token(private_key, token_address, amount_sol, slippage, qa, ba, sa) ==
    IF amount_sol = NaN
    THEN [result |-> Failure("ValueError"), calls |-> <<>>, sent |-> <<>>]
    ELSE IF ~IsFinite(amount_sol)
    THEN [result |-> Failure("OverflowError"), calls |-> <<>>, sent |-> <<>>]
    ELSE swap_stages(private_key, SOL_MINT, token_address, LamportsStr(amount_sol),
                     slippage, amount_sol, FALSE, qa, ba, sa)

\* the answers one sell can consume: the token balance, then the swap's
SellAnswers(id, payer) ==
    {<<ta, NotAsked, NotAsked, NotAsked>> :
        ta \in {a \in TokenAnswers : get_token_balance(a) <= 0}}
        \cup {<<ta, env[1], env[2], env[3]>> :
                ta \in {a \in TokenAnswers : get_token_balance(a) > 0},
                env \in SwapAnswers(id, payer)}

\* Python integers of any size, as their decimal digits (most significant
\* first, no leading zero); int(s) of the digits the ledger answers
int_of_digits(s) ==
    IF \A i \in 1..Len(s) : s[i] = "0" THEN <<"0">>
    ELSE SubSeq(s, CHOOSE i \in 1..Len(s) :
                       s[i] # "0" /\ \A j \in 1..(i - 1) : s[j] = "0", Len(s))

\* a * m + carry for a small m
RECURSIVE MulCarry(_, _, _)
MulCarry(a, m, carry) ==
    IF a = <<>> THEN (IF carry = 0 THEN <<>> ELSE FormatNat(carry))
    ELSE LET v == DigitValue(a[Len(a)]) * m + carry
         IN  Append(MulCarry(SubSeq(a, 1, Len(a) - 1), m, v \div 10),
                    Digits[(v % 10) + 1])
IntMul(a, m) == int_of_digits(<<"0">> \o MulCarry(a, m, 0))
IntAddOne(a) == int_of_digits(<<"0">> \o MulCarry(a, 1, 1))

\* divmod(a, m) for a small m: long division from the first digit on
RECURSIVE DivRem(_, _, _, _, _)
DivRem(a, m, i, rem, acc) ==
    IF i > Len(a) THEN [q |-> int_of_digits(<<"0">> \o acc), r |-> rem]
    ELSE LET v == rem * 10 + DigitValue(a[i])
         IN  DivRem(a, m, i + 1, v % m, Append(acc, Digits[(v \div m) + 1]))
IntDivMod(a, m) == DivRem(a, m, 1, 0, <<>>)

IntLess(a, b) ==
    \/ Len(a) < Len(b)
    \/ /\ Len(a) = Len(b)
       /\ \E i \in 1..Len(a) :
              /\ DigitValue(a[i]) < DigitValue(b[i])
              /\ \A j \in 1..(i - 1) : a[j] = b[j]
IntOdd(a) == DigitValue(a[Len(a)]) % 2 = 1

\* 2^47: a float below it has six or more bits after the binary point
Two47 == <<"1", "4", "0", "7", "3", "7", "4", "8", "8", "3", "5", "5", "3", "2", "8">>

\* e with 2^e <= q < 2^(e+1), for q >= 2^47
RECURSIVE Exponent(_, _, _)
Exponent(q, p, e) ==
    IF IntLess(q, IntMul(p, 2)) THEN e ELSE Exponent(q, IntMul(p, 2), e + 1)

\* q + r / d (r < d) rounded to the nearest multiple of g = 2^j, ties to
\* the multiple whose quotient by g is even
RoundToMultiple(q, r, g) ==
    LET h == IntDivMod(q, g)
        up == \/ 2 * h.r > g
              \/ 2 * h.r = g /\ (r # 0 \/ IntOdd(h.q))
    IN  IntMul(IF up THEN IntAddOne(h.q) ELSE h.q, g)

\* int(a / d) for integers a >= 0 and 0 < d <= 100: a / d is the float (53
\* bits, round to nearest, ties to even) nearest to the quotient, and int
\* drops what is after the point. With e the exponent of the quotient the
\* float keeps 52 - e bits after the point: for e < 47 the fraction r / d
\* cannot round up to 1; for e <= 52 it may; for e > 52 the integer part
\* itself is rounded to a multiple of 2^(e - 52).
int_truediv(a, d) ==
    LET qr == IntDivMod(a, d)
        q == qr.q
        r == qr.r
    IN  IF IntLess(q, Two47) THEN q
        ELSE LET e == Exponent(q, Two47, 47)
             IN  IF e <= 52
                 THEN LET k == 52 - e
                          f == r * (2 ^ k)
                          fq == f \div d
                          fr == f % d
                          odd == IF k = 0 THEN IntOdd(q) ELSE fq % 2 = 1
                          up == 2 * fr > d \/ (2 * fr = d /\ odd)
                      IN  IF fq + (IF up THEN 1 ELSE 0) = 2 ^ k
                          THEN IntAddOne(q) ELSE q
                 ELSE RoundToMultiple(q, r, 2 ^ (e - 52))

\* sell_amount = int(token_balance * percentage / 100)
sell_amount_int(token_balance, percentage) ==
    int_truediv(IntMul(token_balance, percentage), 100)

\* the same for the token balances of the bot's specification
sell_amount_of(token_balance, percentage) ==
    DigitsValue(sell_amount_int(FormatNat(token_balance), percentage))

\* a sell without the check of the token balance
swap_token_for_sol_unchecked(private_key, token_address, percentage, slippage, ta, qa, ba, sa) ==
    LET wallet_pubkey == PubkeyOf(private_key)
        t == get_token_balance_call(wallet_pubkey, token_address, ta)
        sell_amount == sell_amount_of(get_token_balance(ta), percentage)
        rest == swap_stages(private_key, token_address, SOL_MINT,
                            FormatNat(sell_amount),
                            slippage, sell_amount, TRUE, qa, ba, sa)
    IN  [rest EXCEPT !.calls = <<t>> \o rest.calls]

\* swap_token_for_sol: a sell of percentage % of the live token balance
swap_token_for_sol(private_key, token_address, percentage, slippage, ta, qa, ba, sa) ==
    LET wallet_pubkey == PubkeyOf(private_key)
        t == get_token_balance_call(wallet_pubkey, token_address, ta)
        token_balance == get_token_balance(ta)
        sell_amount == sell_amount_of(token_balance, percentage)
        rest == swap_stages(private_key, token_address, SOL_MINT,
                            FormatNat(sell_amount),
                            slippage, sell_amount, TRUE, qa, ba, sa)
    IN  IF token_balance <= 0
        THEN [result |-> Failure("No tokens to sell"), calls |-> <<t>>,
              sent |-> <<>>]
        ELSE [rest EXCEPT !.calls = <<t>> \o rest.calls]

----------------------------------------------------------------------------
(* Conversational surface: the texts and callback data of the model *)

S_buy_ == <<"b", "u", "y", "_">>
S_sell_ == <<"s", "e", "l", "l", "_">>
S_slippage_ == <<"s", "l", "i", "p", "p", "a", "g", "e", "_">>
S_selltoken_ == <<"s", "e", "l", "l", "t", "o", "k", "e", "n", "_">>
S_custom == <<"c", "u", "s", "t", "o", "m">>
D_back_main == <<"back_main">>
D_refresh == <<"refresh">>
D_buy == <<"b", "u", "y">>
D_sell == <<"s", "e", "l", "l">>
D_wallet == <<"wallet">>
D_export_key == <<"export_key">>
D_positions == <<"positions">>
D_settings == <<"settings">>
D_copy_address == <<"copy_address">>
D_refresh_balance == <<"refresh_balance">>

\* get_main_menu_keyboard, get_buy_keyboard, get_settings_keyboard,
\* get_wallet_keyboard: the callback data of their buttons
MainMenuKeyboard == {D_buy, D_sell, D_wallet, D_positions, D_settings, D_refresh}
BuyKeyboard ==
    {S_buy_ \o a : a \in {<<"0", ".", "1">>, <<"0", ".", "2", "5">>,
                          <<"0", ".", "5">>, <<"1">>, <<"2">>, <<"5">>, S_custom}}
        \cup {D_back_main}
SettingsKeyboard ==
    {<<"settings_slippage">>} \cup
    {S_slippage_ \o a : a \in {<<"5">>, <<"1", "0">>, <<"1", "5">>, <<"2", "5">>}}
        \cup {D_back_main}
WalletKeyboard == {D_copy_address, D_export_key, D_refresh_balance, D_back_main}
BackKeyboard == {D_back_main}

\* the button of a listed position: selltoken_ and 16 characters of the address
SellTokenData(token_address) == S_selltoken_ \o SubSeq(token_address, 1, 16)

\* the Try Again button of a failed buy: f"buy_{amount}"
TryAgainBuy(amount) == S_buy_ \o FormatFloat(amount)
\* the Try Again button of a failed sell: f"sell_{percentage}"
TryAgainSell(percentage) == S_sell_ \o FormatNat(percentage)

\* the callback data the model presses
CallbackData ==
    {D_back_main, D_buy, D_sell, D_wallet, D_export_key, D_positions, D_settings,
     S_slippage_ \o <<"2", "5">>,
     S_buy_ \o <<"1">>, S_buy_ \o <<"1", ".", "0">>, S_buy_ \o <<"5">>,
     S_buy_ \o S_custom,
     S_sell_ \o <<"2", "5">>, S_sell_ \o <<"1", "0", "0">>,
     SellTokenData(TokenA), D_copy_address}

\* the message texts the model sends
Texts ==
    {TokenA, TokenB, Rep("1", 32) \o <<"A">>,
     <<"0", ",", "5">>, <<"5">>, <<"0">>, <<"a", "b", "c">>, <<"n", "a", "n">>}

Commands == {"start", "buy", "sell", "wallet", "positions", "settings", "help"}

----------------------------------------------------------------------------
(* Handlers: src/bot.py.  An update is handled to its end before the next  *)
(* one is taken (Application is built without concurrent updates).         *)

NoSession == [current_token |-> None, awaiting_custom_amount |-> FALSE]

\* the chat log: not kept, or kept and empty
NoLog == [kept |-> FALSE, of |-> [u \in Users |-> {}]]
EmptyLog == [kept |-> TRUE, of |-> [u \in Users |-> {}]]

Init ==
    /\ users = [u \in Users |-> NoRow]
    /\ settings = [u \in Users |-> NoRow]
    /\ trades = <<>>
    /\ positions = [k \in Users \X Tokens |-> NoRow]
    /\ user_data = [u \in Users |-> NoSession]
    /\ ledger = <<>>
    /\ calls = <<>>
    /\ req = [user |-> 0, kind |-> "None", data |-> <<>>, message |-> "None", on |-> None]
    /\ reply = [user |-> 0, kind |-> "None", buttons |-> {}]
    /\ nreq = 0
    /\ txn = <<>>
    /\ before = positions
    /\ conns = 0
    /\ op = [n |-> 0, name |-> "None"]
    /\ reads = [u \in Users |-> NoneDict]
    /\ messages = NoLog

\* the messages in the chat a pressed buy button can be on: the info
\* message of a token (on is that token), or another message (None)
Pressed(u, kind, data) ==
    IF kind = "callback" /\ StartsWith(data, S_buy_)
    THEN messages.of[u] \cup {None}
    ELSE {None}

\* an update arrives: a command, a text message, or a button press together
\* with the message the button was on (the latest reply, or an older one)
Receive(u, kind, data) ==
    /\ nreq < MaxRequests
    /\ nreq' = nreq + 1
    /\ \E on \in Pressed(u, kind, data) :
         req' = [user |-> u, kind |-> kind, data |-> data,
                 message |-> IF kind = "callback" /\ reply.user = u
                                /\ data \in reply.buttons
                             THEN reply.kind ELSE "None",
                 on |-> on]
    /\ kind # "message" => messages' = messages
    /\ UNCHANGED <<txn, before, conns, op, reads>>

Say(u, kind, buttons) == [user |-> u, kind |-> kind, buttons |-> buttons]

\* the fresh keypair generate_wallet draws
generate_wallet == nreq + 1

\* /start (bot.py 415-464)
Start(u) ==
    /\ Receive(u, "command", <<"start">>)
    /\ \E up1, up2 \in BOOLEAN, ans \in BalanceAnswers :
        LET existing_user == get_user(users, u, up1)
            private_key == generate_wallet
            public_key == PubkeyOf(private_key)
            is_new == existing_user = NoneDict
            wallet_address ==
                IF is_new THEN public_key ELSE existing_user.wallet_address
        IN  /\ IF is_new
               THEN /\ users' = create_user_users(users, u, "", public_key,
                                                  private_key, up2)
                    /\ settings' = create_user_settings(users, settings, u, up2)
               ELSE UNCHANGED <<users, settings>>
            /\ calls' = <<get_balance_call(wallet_address, ans)>>
            /\ reply' = [user |-> u, kind |-> "Welcome", buttons |-> MainMenuKeyboard,
                         wallet_address |-> wallet_address, is_new |-> is_new,
                         balance |-> get_balance(ans)]
    /\ UNCHANGED <<trades, positions, user_data, ledger>>

InsufficientReply(u, amount, balance, wallet_address) ==
    [user |-> u, kind |-> "InsufficientFunds", buttons |-> BackKeyboard,
     required |-> amount, available |-> balance, wallet_address |-> wallet_address]

\* the balance check and the buy itself, as both the custom-amount path
\* (bot.py 513-573) and the button path (bot.py 838-897) run it
ExecuteBuy(u, user, current_token, amount) ==
    \E ans \in BalanceAnswers :
        LET balance == get_balance(ans)
            bal_call == get_balance_call(user.wallet_address, ans)
        IN  IF BalanceLess(balance, amount)
            THEN /\ reply' = InsufficientReply(u, amount, balance, user.wallet_address)
                 /\ calls' = <<bal_call>>
                 /\ UNCHANGED <<users, settings, trades, positions, ledger>>
            ELSE \E up_s \in BOOLEAN,
                    env \in SwapAnswers(nreq + 1, PubkeyOf(user.private_key)) :
                    LET st == get_settings(settings, u, up_s)
                        o == swap_sol_for_token(user.private_key, current_token,
                                                amount, st.slippage,
                                                env[1], env[2], env[3])
                        result == o.result
                    IN  /\ calls' = <<bal_call>> \o o.calls
                        /\ ledger' = ledger \o o.sent
                        /\ IF result.success
                           THEN /\ \E up_t \in BOOLEAN :
                                     trades' = log_trade(trades, u, current_token,
                                                         "BUY", amount,
                                                         Real(result.amount_out),
                                                         result.signature, up_t)
                                /\ reply' = [user |-> u, kind |-> "BuySuccess",
                                             buttons |-> {D_sell, D_back_main},
                                             spent |-> amount,
                                             signature |-> result.signature]
                           ELSE /\ UNCHANGED trades
                                /\ reply' = [user |-> u, kind |-> "BuyFailed",
                                             buttons |-> {TryAgainBuy(amount),
                                                          D_settings, D_back_main},
                                             error |-> result.error]
                        /\ UNCHANGED <<users, settings, positions>>

\* the sell itself (bot.py 913-957)
ExecuteSell(u, user, current_token, percentage) ==
    \E up_s \in BOOLEAN,
       env \in SellAnswers(nreq + 1, PubkeyOf(user.private_key)) :
        LET ta == env[1]
            st == get_settings(settings, u, up_s)
            o == swap_token_for_sol(user.private_key, current_token, percentage,
                                    st.slippage, ta, env[2], env[3], env[4])
            result == o.result
        IN  /\ calls' = o.calls
            /\ ledger' = ledger \o o.sent
            /\ IF result.success
               THEN /\ \E up_t \in BOOLEAN :
                         trades' = log_trade(trades, u, current_token, "SELL",
                                             Real(result.amount_in),
                                             result.amount_out,
                                             result.signature, up_t)
                    /\ reply' = [user |-> u, kind |-> "SellSuccess",
                                 buttons |-> {D_back_main},
                                 received |-> result.amount_out,
                                 signature |-> result.signature]
               ELSE /\ UNCHANGED trades
                    /\ reply' = [user |-> u, kind |-> "SellFailed",
                                 buttons |-> {TryAgainSell(percentage), D_back_main},
                                 error |-> result.error]
            /\ UNCHANGED <<users, settings, positions>>


TokenInfoAnswers == {"found", "not found", "malformed"}

token_info_call(token_address, answer) ==
    [stage |-> "token_info", address |-> token_address, resp |-> answer]

\* len(text) >= 32 and len(text) <= 44
AddressLength(text) == Len(text) >= 32 /\ Len(text) <= 44

\* a selected token kept in one place for all users
select_token_shared(sessions, u, text) ==
    [v \in Users |-> [sessions[v] EXCEPT !.current_token = text]]

\* a selection that keeps the first 16 characters, as the position buttons do
select_token_truncated(sessions, u, text) ==
    [sessions EXCEPT ![u].current_token = SubSeq(text, 1, 16)]

\* context.user_data["current_token"] = text (bot.py 582): user_data is the
\* dictionary of the user the update came from
select_token(sessions, u, text) == [sessions EXCEPT ![u].current_token = text]

\* a handler that never finds the prompt pending
awaiting_custom_amount_ignored(sessions, u) == FALSE

\* context.user_data.get("awaiting_custom_amount") (bot.py 473)
awaiting_custom_amount(sessions, u) == sessions[u].awaiting_custom_amount

\* a text message: a custom amount while one is awaited (bot.py 472-573),
\* a token address otherwise (bot.py 575-659)
HandleMessage(u, text) ==
    /\ Receive(u, "message", text)
    /\ IF awaiting_custom_amount(user_data, u)
       THEN LET current_token == user_data[u].current_token
                amount == ParseFloat(ReplaceChar(text, ",", "."))
                cleared == [user_data EXCEPT ![u].awaiting_custom_amount = FALSE]
            IN  IF current_token = None
                THEN /\ user_data' = cleared
                     /\ reply' = Say(u, "NoToken", BackKeyboard)
                     /\ calls' = <<>>
                     /\ UNCHANGED <<users, settings, trades, positions, ledger>>
                ELSE IF amount = Invalid
                THEN /\ user_data' = [cleared EXCEPT ![u].awaiting_custom_amount = TRUE]
                     /\ reply' = Say(u, "InvalidAmount", BuyKeyboard)
                     /\ calls' = <<>>
                     /\ UNCHANGED <<users, settings, trades, positions, ledger>>
                ELSE IF NotPositive(amount)
                THEN /\ user_data' = [cleared EXCEPT ![u].awaiting_custom_amount = TRUE]
                     /\ reply' = Say(u, "AmountNotPositive", BuyKeyboard)
                     /\ calls' = <<>>
                     /\ UNCHANGED <<users, settings, trades, positions, ledger>>
                ELSE /\ user_data' = cleared
                     /\ \E up \in BOOLEAN :
                          LET user == get_user(users, u, up)
                          IN  IF user = NoneDict
                              THEN /\ reply' = Say(u, "NotRegistered", {})
                                   /\ calls' = <<>>
                                   /\ UNCHANGED <<users, settings, trades, positions,
                                                  ledger>>
                              ELSE ExecuteBuy(u, user, current_token, amount)
       ELSE IF AddressLength(text)
            THEN IF PubkeyParses(text)
                 THEN \E info \in TokenInfoAnswers :
                        /\ user_data' = select_token(user_data, u, text)
                        /\ calls' = <<token_info_call(text, info)>>
                        /\ reply' =
                             IF info = "found" THEN Say(u, "TokenInfo", BuyKeyboard)
                             ELSE IF info = "not found"
                             THEN Say(u, "NewToken", BuyKeyboard)
                             ELSE Say(u, "InvalidAddress", {})
                        /\ UNCHANGED <<users, settings, trades, positions, ledger>>
                 ELSE /\ reply' = Say(u, "InvalidAddress", {})
                      /\ calls' = <<>>
                      /\ UNCHANGED <<users, settings, trades, positions, user_data,
                                     ledger>>
            ELSE /\ reply' = Say(u, "SendAddress", {})
                 /\ calls' = <<>>
                 /\ UNCHANGED <<users, settings, trades, positions, user_data, ledger>>
    /\ messages' = IF messages.kept /\ reply'.kind \in {"TokenInfo", "NewToken"}
                   THEN [messages EXCEPT !.of[u] = @ \cup {text}]
                   ELSE messages

\* the buttons listing the user's positions (bot.py 722-730, 1015-1022)
PositionButtons(ps) == {SellTokenData(k[2]) : k \in ps}

\* a reply that reads the wallet balance and changes nothing
BalanceReply(u, user, kind, buttons) ==
    \E ans \in BalanceAnswers :
        /\ calls' = <<get_balance_call(user.wallet_address, ans)>>
        /\ reply' = [user |-> u, kind |-> kind, buttons |-> buttons,
                     wallet_address |-> user.wallet_address,
                     balance |-> get_balance(ans)]
        /\ UNCHANGED <<users, settings, trades, positions, user_data, ledger>>

\* a reply that calls nothing and changes nothing
PlainReply(r) ==
    /\ reply' = r
    /\ calls' = <<>>
    /\ UNCHANGED <<users, settings, trades, positions, user_data, ledger>>

PositionsReply(u, kind, extra) ==
    \E up \in BOOLEAN :
        LET ps == get_positions(positions, u, up)
        IN  PlainReply([user |-> u,
                        kind |-> IF ps = {} THEN "NoPositions" ELSE kind,
                        buttons |-> IF ps = {} THEN {D_buy} \cup extra
                                    ELSE PositionButtons(ps) \cup extra,
                        listed |-> ps])

SettingsReply(u, st) ==
    [user |-> u, kind |-> "Settings", buttons |-> SettingsKeyboard,
     slippage |-> st.slippage]

\* a button press (bot.py 662-957)
HandleCallback(u, data) ==
    /\ Receive(u, "callback", data)
    /\ \E up \in BOOLEAN :
        LET user == get_user(users, u, up)
            current_token == user_data[u].current_token
        IN  IF user = NoneDict
            THEN PlainReply(Say(u, "NotRegistered", {}))
            ELSE IF data = D_back_main \/ data = D_refresh
            THEN BalanceReply(u, user, "MainMenu", MainMenuKeyboard)
            ELSE IF data = D_buy
            THEN PlainReply(Say(u, "BuyPrompt", BackKeyboard))
            ELSE IF data = D_sell
            THEN PositionsReply(u, "SelectToken", BackKeyboard)
            ELSE IF data = D_wallet
            THEN BalanceReply(u, user, "Wallet", WalletKeyboard)
            ELSE IF data = D_export_key
            THEN PlainReply([user |-> u, kind |-> "PrivateKey", buttons |-> {},
                             private_key |-> user.private_key])
            ELSE IF data = D_positions
            THEN \E up_p \in BOOLEAN :
                    PlainReply([user |-> u, kind |-> "Positions",
                                buttons |-> {D_positions, D_back_main},
                                listed |-> get_positions(positions, u, up_p)])
            ELSE IF data = D_settings
            THEN \E up_s \in BOOLEAN :
                    PlainReply(SettingsReply(u, get_settings(settings, u, up_s)))
            ELSE IF StartsWith(data, S_slippage_)
            THEN \E up_w, up_s \in BOOLEAN :
                    LET new_slippage == ParseInt(SplitField1(data))
                        written == update_settings(settings, u, "slippage",
                                                   new_slippage, up_w)
                    IN  /\ settings' = written
                        /\ reply' = [SettingsReply(u, get_settings(written, u, up_s))
                                     EXCEPT !.kind = "SlippageUpdated"]
                        /\ calls' = <<>>
                        /\ UNCHANGED <<users, trades, positions, user_data, ledger>>
            ELSE IF StartsWith(data, S_buy_)
            THEN LET amount_str == DropPrefix(data, Len(S_buy_))
                 IN  IF current_token = None
                     THEN PlainReply(Say(u, "NoToken", BackKeyboard))
                     ELSE IF amount_str = S_custom
                     THEN /\ user_data' =
                                [user_data EXCEPT ![u].awaiting_custom_amount = TRUE]
                          /\ reply' = Say(u, "CustomPrompt", BackKeyboard)
                          /\ calls' = <<>>
                          /\ UNCHANGED <<users, settings, trades, positions, ledger>>
                     ELSE IF ParseFloat(amount_str) = Invalid
                     THEN PlainReply(Say(u, "InvalidAmountAnswer", {}))
                     ELSE /\ ExecuteBuy(u, user, current_token, ParseFloat(amount_str))
                          /\ UNCHANGED user_data
            ELSE IF StartsWith(data, S_sell_)
            THEN LET percentage == ParseInt(SplitField1(data))
                 IN  IF current_token = None
                     THEN PlainReply(Say(u, "NoTokenToSell", {D_sell}))
                     ELSE /\ ExecuteSell(u, user, current_token, percentage)
                          /\ UNCHANGED user_data
            ELSE PlainReply(Say(u, "Nothing", {}))


\* /buy (bot.py 980-991) and /help (bot.py 1101-1125)
CmdBuy(u) ==
    /\ Receive(u, "command", <<"buy">>)
    /\ PlainReply(Say(u, "BuyPrompt", BackKeyboard))

CmdHelp(u) ==
    /\ Receive(u, "command", <<"help">>)
    /\ PlainReply(Say(u, "Help", {}))

\* /sell, /wallet, /positions, /settings (bot.py 994-1098)
CmdSell(u) ==
    /\ Receive(u, "command", <<"sell">>)
    /\ \E up \in BOOLEAN :
        IF get_user(users, u, up) = NoneDict
        THEN PlainReply(Say(u, "NotRegistered", {}))
        ELSE PositionsReply(u, "SelectToken", {})

CmdWallet(u) ==
    /\ Receive(u, "command", <<"wallet">>)
    /\ \E up \in BOOLEAN :
        LET user == get_user(users, u, up)
        IN  IF user = NoneDict
            THEN PlainReply(Say(u, "NotRegistered", {}))
            ELSE BalanceReply(u, user, "Wallet", WalletKeyboard)

CmdPositions(u) ==
    /\ Receive(u, "command", <<"positions">>)
    /\ \E up, up_p \in BOOLEAN :
        IF get_user(users, u, up) = NoneDict
        THEN PlainReply(Say(u, "NotRegistered", {}))
        ELSE PlainReply([user |-> u, kind |-> "Positions",
                         buttons |-> {D_positions, D_back_main},
                         listed |-> get_positions(positions, u, up_p)])

CmdSettings(u) ==
    /\ Receive(u, "command", <<"settings">>)
    /\ \E up, up_s \in BOOLEAN :
        IF get_user(users, u, up) = NoneDict
        THEN PlainReply(Say(u, "NotRegistered", {}))
        ELSE PlainReply(SettingsReply(u, get_settings(settings, u, up_s)))

Next ==
    \E u \in Users :
        \/ Start(u)
        \/ \E text \in Texts : HandleMessage(u, text)
        \/ \E data \in CallbackData : HandleCallback(u, data)
        \/ CmdBuy(u)
        \/ CmdSell(u)
        \/ CmdWallet(u)
        \/ CmdPositions(u)
        \/ CmdSettings(u)
        \/ CmdHelp(u)

Spec == Init /\ [][Next]_vars

\* The conversation of user 1, registered with wallet 1, with the chat log
\* kept: the texts sent and the buttons pressed, each button on one of the
\* messages in the chat
InitChat ==
    /\ users = [u \in Users |->
                   IF u = 1
                   THEN [telegram_id |-> 1, username |-> "",
                         wallet_address |-> PubkeyOf(1), private_key |-> 1]
                   ELSE NoRow]
    /\ settings = [u \in Users |-> IF u = 1 THEN SettingsRow(1) ELSE NoRow]
    /\ trades = <<>>
    /\ positions = [k \in Users \X Tokens |-> NoRow]
    /\ user_data = [u \in Users |-> NoSession]
    /\ ledger = <<>>
    /\ calls = <<>>
    /\ req = [user |-> 0, kind |-> "None", data |-> <<>>, message |-> "None", on |-> None]
    /\ reply = [user |-> 0, kind |-> "None", buttons |-> {}]
    /\ nreq = 1
    /\ txn = <<>>
    /\ before = positions
    /\ conns = 0
    /\ op = [n |-> 0, name |-> "None"]
    /\ reads = [u \in Users |-> NoneDict]
    /\ messages = EmptyLog

NextChat ==
    \/ \E text \in Texts : HandleMessage(1, text)
    \/ \E data \in CallbackData : HandleCallback(1, data)

SpecChat == InitChat /\ [][NextChat]_vars

-----------------------------------------------------------------------------
\* The store under concurrent update_position calls. Each call opens its own
\* connection (get_cursor), runs the one upsert statement, and commits; any
\* exception rolls back and the call returns False. The engine serialises
\* writers of one row: a statement waits while another connection holds an
\* uncommitted write of that row, and a wait that times out is an exception.

StoreKeys == {<<1, TokenA>>, <<1, TokenB>>}
Deltas == {1, 2}
BotVars == <<users, settings, trades, user_data, ledger, calls, req, reply, nreq, conns, op, reads, messages>>

InitStore ==
    /\ users = [u \in Users |-> NoRow]
    /\ settings = [u \in Users |-> NoRow]
    /\ trades = <<>>
    /\ user_data = [u \in Users |-> NoSession]
    /\ ledger = <<>>
    /\ calls = <<>>
    /\ req = [user |-> 0, kind |-> "None", data |-> <<>>, message |-> "None", on |-> None]
    /\ reply = [user |-> 0, kind |-> "None", buttons |-> {}]
    /\ nreq = 0
    /\ \E rows \in [StoreKeys -> {NoRow, [amount |-> 1]}] :
           positions = [k \in Users \X Tokens |->
                           IF k \in StoreKeys THEN rows[k] ELSE NoRow]
    /\ before = positions
    /\ conns = 0
    /\ op = [n |-> 0, name |-> "None"]
    /\ reads = [u \in Users |-> NoneDict]
    /\ messages = NoLog
    /\ \E n \in 1..MaxCalls :
           txn \in [1..n -> [key : StoreKeys, amount : Deltas, pc : {"start"},
                             seen : {NoRow}, pending : {NoRow},
                             returned : {"None"}]]

\* conn = self._get_connection(); cursor = conn.cursor()
GetConnection(i) ==
    /\ txn[i].pc = "start"
    /\ \E ok \in BOOLEAN :
           txn' = [txn EXCEPT ![i] =
                      IF ok THEN [@ EXCEPT !.pc = "connected"]
                      ELSE [@ EXCEPT !.pc = "done", !.returned = "False"]]
    /\ UNCHANGED <<positions, before, BotVars>>

\* cursor.execute(INSERT ... ON CONFLICT ... DO UPDATE ...): one statement,
\* run when no other connection holds an uncommitted write of the row
Execute(i) ==
    /\ txn[i].pc = "connected"
    /\ \A j \in DOMAIN txn :
           j # i => ~(txn[j].pc = "executed" /\ txn[j].key = txn[i].key)
    /\ txn' = [txn EXCEPT ![i] =
                  [@ EXCEPT !.pc = "executed",
                            !.seen = positions[txn[i].key],
                            !.pending = upsert_amount(positions[txn[i].key],
                                                      txn[i].amount)]]
    /\ UNCHANGED <<positions, before, BotVars>>

\* conn.commit(); cursor.close(); conn.close(); return True
Commit(i) ==
    /\ txn[i].pc = "executed"
    /\ positions' = [positions EXCEPT ![txn[i].key] = txn[i].pending]
    /\ txn' = [txn EXCEPT ![i] = [@ EXCEPT !.pc = "done", !.returned = "True"]]
    /\ UNCHANGED <<before, BotVars>>

\* the statement or the commit raised: conn.rollback(); return False
Rollback(i) ==
    /\ txn[i].pc \in {"connected", "executed"}
    /\ txn' = [txn EXCEPT ![i] = [@ EXCEPT !.pc = "done", !.pending = NoRow,
                                            !.returned = "False"]]
    /\ UNCHANGED <<positions, before, BotVars>>

NextStore ==
    \E i \in DOMAIN txn :
        \/ GetConnection(i)
        \/ Execute(i)
        \/ Commit(i)
        \/ Rollback(i)

SpecStore == InitStore /\ [][NextStore]_vars

-----------------------------------------------------------------------------
\* The store called directly, one Database method per step, with any of the
\* arguments below and with a failure at any point of get_cursor.

\* where get_cursor may raise: opening the connection, creating the cursor,
\* a statement of the body, the commit, or ("rollback") a statement and then
\* the rollback that follows it
FailurePoints == {"none", "connect", "cursor", "execute", "commit", "rollback"}

\* get_cursor: commit when the body completes, rollback when anything
\* raises; finally closes the cursor, then the connection. When
\* conn.cursor() raised, the name cursor is unbound: cursor.close() raises
\* and conn.close() is not reached.
get_cursor(fail) ==
    [opened |-> fail # "connect",
     committed |-> fail = "none",
     rolled_back |-> fail \in {"cursor", "execute", "commit"},
     closed |-> fail \notin {"connect", "cursor"}]

\* a connection object that was not closed is closed by its finalizer when
\* the runtime collects it, if and when it does
Finalized(fail) == IF fail = "cursor" THEN BOOLEAN ELSE {TRUE}
LeftOpen(fail, finalized) ==
    IF get_cursor(fail).opened /\ ~get_cursor(fail).closed /\ ~finalized
    THEN 1 ELSE 0

Wallets == {1, 2}
Partials ==
    {[slippage |-> 25], [telegram_id |-> 2], [slippage |-> 5, telegram_id |-> 2]}
PositionAmounts == {-1, 0, 1}
Limits == {1, 10}

\* for key, value in settings.items(): one UPDATE per allowed key
RECURSIVE update_settings_items(_, _, _, _, _)
update_settings_items(st, telegram_id, partial, keys, up) ==
    IF keys = {} THEN st
    ELSE LET key == CHOOSE k \in keys : TRUE
         IN  update_settings_items(
                 update_settings(st, telegram_id, key, partial[key], up),
                 telegram_id, partial, keys \ {key}, up)

RECURSIVE Reverse(_)
Reverse(q) == IF q = <<>> THEN <<>> ELSE Append(Reverse(Tail(q)), Head(q))

\* get_trades: the user's rows, newest first, at most limit of them
get_trades(tr, telegram_id, limit, up) ==
    LET OfUser(t) == t.telegram_id = telegram_id
        rows == Reverse(SelectSeq(tr, OfUser))
    IN  IF up THEN SubSeq(rows, 1, IF Len(rows) < limit THEN Len(rows) ELSE limit)
        ELSE <<>>

\* DELETE FROM positions WHERE telegram_id = ? AND token_address = ?
delete_position(ps, telegram_id, token_address, up) ==
    IF up THEN [ps EXCEPT ![<<telegram_id, token_address>>] = NoRow] ELSE ps

\* INSERT INTO positions ... ON CONFLICT ... DO UPDATE, in its transaction
update_position(ps, telegram_id, token_address, amount, up) ==
    IF up
    THEN [ps EXCEPT ![<<telegram_id, token_address>>] = upsert_amount(@, amount)]
    ELSE ps

OtherVars == <<user_data, ledger, calls, req, reply, nreq, txn, before, messages>>

InitDb ==
    /\ \E registered \in BOOLEAN :
          /\ users = [u \in Users |->
                        IF registered /\ u = 1
                        THEN [telegram_id |-> 1, username |-> "",
                              wallet_address |-> PubkeyOf(1), private_key |-> 1]
                        ELSE NoRow]
          /\ settings = [u \in Users |->
                           IF registered /\ u = 1 THEN SettingsRow(1) ELSE NoRow]
    /\ trades = <<>>
    /\ positions = [k \in Users \X Tokens |-> NoRow]
    /\ user_data = [u \in Users |-> NoSession]
    /\ ledger = <<>>
    /\ calls = <<>>
    /\ req = [user |-> 0, kind |-> "None", data |-> <<>>, message |-> "None", on |-> None]
    /\ reply = [user |-> 0, kind |-> "None", buttons |-> {}]
    /\ nreq = 0
    /\ txn = <<>>
    /\ before = positions
    /\ conns = 0
    /\ op = [n |-> 0, name |-> "None"]
    /\ reads = [u \in Users |-> NoneDict]
    /\ messages = NoLog

\* what every method does around its body: open, run, commit or roll back
Called(name, telegram_id, arg, fail, finalized, returned) ==
    /\ op.n < MaxOps
    /\ op' = [n |-> op.n + 1, name |-> name, telegram_id |-> telegram_id,
              arg |-> arg, fail |-> fail, returned |-> returned]
    /\ conns' = conns + LeftOpen(fail, finalized)
    /\ UNCHANGED OtherVars

CreateUser(telegram_id, wallet, fail, finalized) ==
    LET up == get_cursor(fail).committed
    IN  /\ Called("create_user", telegram_id, wallet, fail, finalized,
                  create_user_ok(users, telegram_id, up))
        /\ users' = create_user_users(users, telegram_id, "", PubkeyOf(wallet),
                                      wallet, up)
        /\ settings' = create_user_settings(users, settings, telegram_id, up)
        /\ reads' = [reads EXCEPT ![telegram_id] =
                        IF @ # NoneDict /\ create_user_ok(users, telegram_id, up)
                        THEN [@ EXCEPT !.created = TRUE] ELSE @]
        /\ UNCHANGED <<trades, positions>>

GetUser(telegram_id, fail, finalized) ==
    /\ Called("get_user", telegram_id, <<>>, fail, finalized,
              get_user(users, telegram_id, get_cursor(fail).committed))
    /\ UNCHANGED <<store, reads>>

GetSettings(telegram_id, fail, finalized) ==
    LET up == get_cursor(fail).committed
        returned == get_settings(settings, telegram_id, up)
    IN  /\ Called("get_settings", telegram_id, <<>>, fail, finalized, returned)
        /\ reads' = [reads EXCEPT ![telegram_id] =
                        [value |-> returned, ok |-> up, created |-> FALSE,
                         n |-> op.n + 1,
                         previous |-> IF @ # NoneDict THEN @.n ELSE 0]]
        /\ UNCHANGED store

UpdateSettings(telegram_id, partial, fail, finalized) ==
    LET up == get_cursor(fail).committed
    IN  /\ Called("update_settings", telegram_id, partial, fail, finalized, up)
        /\ settings' = update_settings_items(settings, telegram_id, partial,
                                             DOMAIN partial, up)
        /\ reads' = [reads EXCEPT ![telegram_id] = NoneDict]
        /\ UNCHANGED <<users, trades, positions>>

LogTrade(telegram_id, trade_type, fail, finalized) ==
    LET up == get_cursor(fail).committed
    IN  /\ Called("log_trade", telegram_id, trade_type, fail, finalized, up)
        /\ trades' = log_trade(trades, telegram_id, TokenA, trade_type, Real(1),
                               Real(2), [sig |-> op.n + 1], up)
        /\ UNCHANGED <<users, settings, positions, reads>>

GetTrades(telegram_id, limit, fail, finalized) ==
    /\ Called("get_trades", telegram_id, limit, fail, finalized,
              get_trades(trades, telegram_id, limit, get_cursor(fail).committed))
    /\ UNCHANGED <<store, reads>>

UpdatePosition(telegram_id, token_address, amount, fail, finalized) ==
    LET up == get_cursor(fail).committed
    IN  /\ Called("update_position", telegram_id, <<token_address, amount>>, fail, finalized, up)
        /\ positions' = update_position(positions, telegram_id, token_address,
                                        amount, up)
        /\ UNCHANGED <<users, settings, trades, reads>>

GetPositions(telegram_id, fail, finalized) ==
    /\ Called("get_positions", telegram_id, <<>>, fail, finalized,
              get_positions(positions, telegram_id, get_cursor(fail).committed))
    /\ UNCHANGED <<store, reads>>

DeletePosition(telegram_id, token_address, fail, finalized) ==
    LET up == get_cursor(fail).committed
    IN  /\ Called("delete_position", telegram_id, token_address, fail, finalized, up)
        /\ positions' = delete_position(positions, telegram_id, token_address, up)
        /\ UNCHANGED <<users, settings, trades, reads>>

NextDb ==
    \E telegram_id \in Users, fail \in FailurePoints :
        \E finalized \in Finalized(fail) :
            \/ \E wallet \in Wallets :
                   CreateUser(telegram_id, wallet, fail, finalized)
            \/ GetUser(telegram_id, fail, finalized)
            \/ GetSettings(telegram_id, fail, finalized)
            \/ \E partial \in Partials :
                   UpdateSettings(telegram_id, partial, fail, finalized)
            \/ \E trade_type \in {"BUY", "SELL"} :
                   LogTrade(telegram_id, trade_type, fail, finalized)
            \/ \E limit \in Limits : GetTrades(telegram_id, limit, fail, finalized)
            \/ \E token_address \in Tokens, amount \in PositionAmounts :
                   UpdatePosition(telegram_id, token_address, amount, fail,
                                  finalized)
            \/ GetPositions(telegram_id, fail, finalized)
            \/ \E token_address \in Tokens :
                   DeletePosition(telegram_id, token_address, fail, finalized)

SpecDb == InitDb /\ [][NextDb]_vars

-----------------------------------------------------------------------------
\* The amount of a sell on its own: sell_amount for the token balances the
\* ledger may answer (u64, as decimal digits) and every percentage.

TokenBalanceDigits ==
    {<<"1">>, <<"3">>, <<"9", "9">>, <<"1", "0", "0", "0", "0", "0", "1">>,
     <<"2", "2", "8", "7", "3", "7", "1", "9", "3", "8", "6", "2", "1", "5", "3">>,
     <<"9", "0", "0", "7", "1", "9", "9", "2", "5", "4", "7", "4", "0", "9", "9", "3">>,
     <<"9", "0", "0", "7", "1", "9", "9", "2", "5", "4", "7", "4", "0", "9", "9", "5">>,
     <<"1", "8", "4", "4", "6", "7", "4", "4", "0", "7", "3", "7", "0", "9", "5", "5", "1", "6", "1", "5">>}
Percentages == 1..100

SellAmount(token_balance, percentage) ==
    /\ op.n = 0
    /\ op' = [n |-> 1, name |-> "sell_amount", telegram_id |-> 0,
              arg |-> <<token_balance, percentage>>, fail |-> "none",
              returned |-> sell_amount_int(int_of_digits(token_balance),
                                           percentage)]
    /\ UNCHANGED <<store, conns, reads, OtherVars>>

NextSell ==
    \E token_balance \in TokenBalanceDigits, percentage \in Percentages :
        SellAmount(token_balance, percentage)

SpecSell == InitDb /\ [][NextSell]_vars

----------------------------------------------------------------------------
(* Properties *)

AggregatorStages == {"quote", "build", "submit"}
IsAggregatorCall(c) == c.stage \in AggregatorStages
AggregatorCalls(cl) == SelectSeq(cl, IsAggregatorCall)
StagesOf(cl) == [i \in 1..Len(cl) |-> cl[i].stage]
IsQuoteCall(c) == c.stage = "quote"
QuoteCalls(cl) == SelectSeq(cl, IsQuoteCall)
IsSubmitCall(c) == c.stage = "submit"
SubmitCalls(cl) == SelectSeq(cl, IsSubmitCall)

\* the update is a buy with an amount: a buy_<amount> button, or a text
\* sent while the custom amount is awaited (before is the session it met)
IsBuyButton(r) ==
    r.kind = "callback" /\ StartsWith(r.data, S_buy_)
        /\ DropPrefix(r.data, Len(S_buy_)) # S_custom
IsCustomAmount(r, sessions) ==
    r.kind = "message" /\ sessions[r.user].awaiting_custom_amount
IsSellButton(r) == r.kind = "callback" /\ StartsWith(r.data, S_sell_)
RequestedAmount(r) ==
    IF r.kind = "callback" THEN ParseFloat(DropPrefix(r.data, Len(S_buy_)))
    ELSE ParseFloat(ReplaceChar(r.data, ",", "."))

\* C1: every step either leaves the trades and positions tables as they
\* were, or appends one Trade row and changes the Position row of that
\* trade's (user, token) and no other
C1_TradeAndPositionTogether ==
    [][\/ trades' = trades /\ positions' = positions
       \/ /\ Len(trades') = Len(trades) + 1
          /\ SubSeq(trades', 1, Len(trades)) = trades
          /\ LET t == trades'[Len(trades')]
                 key == <<t.telegram_id, t.token_address>>
             IN  /\ positions'[key] # positions[key]
                 /\ \A k \in DOMAIN positions :
                        k # key => positions'[k] = positions[k]]_vars

\* C2: a successful buy leaves the Position row of (user, token) merged
\* additively with the quote's outAmount; a successful sell leaves it
\* merged with a positive delta
C2_PositionMergedAfterTrade ==
    [][reply'.kind \in {"BuySuccess", "SellSuccess"} =>
         LET q == QuoteCalls(calls')[1]
             token == IF reply'.kind = "BuySuccess" THEN q.outputMint
                      ELSE q.inputMint
             key == <<req'.user, token>>
         IN  IF reply'.kind = "BuySuccess"
             THEN positions'[key] = upsert_amount(positions[key], OutAmountOf(q.resp))
             ELSE /\ positions'[key] # NoRow
                  /\ positions[key] # NoRow =>
                         positions'[key].amount > positions[key].amount]_vars

\* C3: a Trade row is appended only by a successful buy or sell, and it
\* carries the acting user, the token given to the quote, the signature the
\* ledger returned, and: for a buy, side BUY, the SOL amount requested and
\* the quote's outAmount; for a sell, side SELL, the token amount quoted and
\* the quote's outAmount in SOL
C3_TradeRowFields ==
    [][trades' # trades =>
         LET t == trades'[Len(trades')]
             q == QuoteCalls(calls')[1]
             s == SubmitCalls(calls')[1]
         IN  /\ trades' = Append(trades, t)
             /\ reply'.kind \in {"BuySuccess", "SellSuccess"}
             /\ t.telegram_id = req'.user
             /\ t.signature = s.resp.value
             /\ t.signature = reply'.signature
             /\ reply'.kind = "BuySuccess" =>
                    /\ t.trade_type = "BUY"
                    /\ t.token_address = q.outputMint
                    /\ q.inputMint = SOL_MINT
                    /\ t.amount_in = RequestedAmount(req')
                    /\ t.amount_out = Float(OutAmountOf(q.resp), 1)
             /\ reply'.kind = "SellSuccess" =>
                    /\ t.trade_type = "SELL"
                    /\ t.token_address = q.inputMint
                    /\ q.outputMint = SOL_MINT
                    /\ t.amount_in.d = 1
                    /\ FormatNat(t.amount_in.n) = q.amount
                    /\ t.amount_out = Float(OutAmountOf(q.resp), LAMPORTS_PER_SOL)]_vars

\* C3 witness: the buy of 1.0 with outAmount 500000 is on record
C3_Witness ==
    /\ reply.kind = "BuySuccess"
    /\ trades # <<>>
    /\ LET t == trades[Len(trades)]
       IN  /\ t.trade_type = "BUY"
           /\ t.amount_in = Float(1, 1)
           /\ t.amount_out = Float(500000, 1)
           /\ t.telegram_id = req.user


\* the balance, in lamports, that a get_balance answer stands for
BalanceRead(resp) == IF "value" \in DOMAIN resp THEN resp.value ELSE 0
\* amount (a decimal fraction of SOL) exceeds a balance in lamports
Exceeds(amount, lamports) ==
    IF ~IsFinite(amount) THEN "inf" \in DOMAIN amount /\ ~amount.neg
    ELSE (lamports \div (LAMPORTS_PER_SOL \div amount.d)) < amount.n

\* C4: a buy, by button or by custom amount, whose amount exceeds the
\* balance read is answered InsufficientFunds with the required and the
\* available amount, writes nothing to the store, calls neither quote nor
\* build nor submit, and sends nothing to the ledger
C4_InsufficientFundsRejected ==
    [][\A i \in 1..Len(calls') :
         (/\ calls'[i].stage = "get_balance"
          /\ IsBuyButton(req') \/ IsCustomAmount(req', user_data)
          /\ Exceeds(RequestedAmount(req'), BalanceRead(calls'[i].resp)))
         => /\ reply'.kind = "InsufficientFunds"
            /\ reply'.required = RequestedAmount(req')
            /\ reply'.available.n = BalanceRead(calls'[i].resp)
            /\ reply'.available.d = LAMPORTS_PER_SOL \/ reply'.available.n = 0
            /\ UNCHANGED store
            /\ ledger' = ledger
            /\ AggregatorCalls(calls') = <<>>]_vars

\* C4 witness: a custom amount of 5 against a balance of 1.0 was rejected
C4_Witness ==
    /\ reply.kind = "InsufficientFunds"
    /\ req.kind = "message"
    /\ reply.required = Float(5, 1)
    /\ reply.available = Float(LAMPORTS_PER_SOL, LAMPORTS_PER_SOL)

\* C5: an update other than /start from a user without a User row writes
\* nothing to the store, sends nothing to the ledger and calls neither quote
\* nor build nor submit; a buy or sell button is answered NotRegistered
C5_UnregisteredDoesNothing ==
    [][(users[req'.user] = NoRow /\ req'.data # <<"start">>)
         => /\ UNCHANGED store
            /\ ledger' = ledger
            /\ AggregatorCalls(calls') = <<>>
            /\ (IsBuyButton(req') \/ IsSellButton(req'))
                   => reply'.kind = "NotRegistered"]_vars

\* C5 witness: an unregistered user who had selected a token pressed a buy
\* button and was told to register
C5_Witness ==
    /\ req.user \in Users
    /\ users[req.user] = NoRow
    /\ IsBuyButton(req)
    /\ user_data[req.user].current_token # None
    /\ reply.kind = "NotRegistered"

NoHoldings(r) == r.kind = "SellFailed" /\ r.error = "No tokens to sell"

\* C6 as stated: NoHoldings is returned before any network call is made
C6_NoHoldingsBeforeAnyNetworkCall ==
    [][NoHoldings(reply') => calls' = <<>> /\ UNCHANGED store]_vars

\* C6 as amended: a sell that reads a token balance of 0 is answered
\* NoHoldings; the balance read is its only network call (no quote, build
\* or submit), and it writes nothing to the store or the ledger
C6_NoHoldingsBeforeAggregator ==
    [][/\ \A i \in 1..Len(calls') :
            (calls'[i].stage = "get_token_balance" /\ IsSellButton(req')
             /\ (calls'[i].resp = RpcError \/ calls'[i].resp.accounts = <<>>
                 \/ calls'[i].resp.accounts[1] = 0))
            => NoHoldings(reply')
       /\ NoHoldings(reply')
            => /\ StagesOf(calls') = <<"get_token_balance">>
               /\ UNCHANGED store
               /\ ledger' = ledger]_vars

\* C6 witness: a sell of 100% met a live balance of 0
C6_Witness ==
    /\ NoHoldings(reply)
    /\ req.data = S_sell_ \o <<"1", "0", "0">>
    /\ calls[1].resp = [accounts |-> <<0>>]

\* C7: every transaction handed to the ledger carries a signature
C7_SubmittedTransactionsAreSigned ==
    \A i \in 1..Len(ledger) : ledger[i].signatures # {}

HttpOk(resp) == "status" \in DOMAIN resp /\ resp.status = HTTP_OK
StageSucceeded(c) ==
    IF c.stage = "quote" THEN HttpOk(c.resp)
    ELSE IF c.stage = "build"
    THEN HttpOk(c.resp) /\ "swapTransaction" \in DOMAIN c.resp
    ELSE "value" \in DOMAIN c.resp

\* C8: the aggregator calls of a request are a prefix of quote, build,
\* submit; each call but the last succeeded; the request is answered with a
\* success exactly when all three were made and succeeded, with a failure
\* when the last one made failed
C8_StagesInOrder ==
    LET a == AggregatorCalls(calls)
    IN  /\ StagesOf(a) \in {<<>>, <<"quote">>, <<"quote", "build">>,
                            <<"quote", "build", "submit">>}
        /\ \A i \in 1..(Len(a) - 1) : StageSucceeded(a[i])
        /\ reply.kind \in {"BuySuccess", "SellSuccess"}
              <=> Len(a) = 3 /\ StageSucceeded(a[3])
        /\ (a # <<>> /\ ~StageSucceeded(a[Len(a)]))
              => reply.kind \in {"BuyFailed", "SellFailed"}

\* C8 witness: a quote succeeded, the build answered without a transaction,
\* and the request failed with no submit
C8_Witness ==
    LET a == AggregatorCalls(calls)
    IN  /\ StagesOf(a) = <<"quote", "build">>
        /\ a[2].resp = [status |-> HTTP_OK]
        /\ reply.kind = "BuyFailed"

\* C9: a request makes at most one quote, one build and one submit call and
\* hands at most one transaction to the ledger; no transaction is handed
\* over twice; whatever reaches the ledger was quoted in the same request
C9_AtMostOneSubmission ==
    /\ [](/\ Len(SubmitCalls(calls)) <= 1
          /\ Len(QuoteCalls(calls)) <= 1
          /\ Len(AggregatorCalls(calls)) <= 3
          /\ Len(ledger) <= nreq
          /\ \A i, j \in 1..Len(ledger) : i # j => ledger[i].id # ledger[j].id)
    /\ [][/\ Len(ledger') <= Len(ledger) + 1
          /\ Len(ledger') > Len(ledger)
                => /\ Len(QuoteCalls(calls')) = 1
                   /\ HttpOk(QuoteCalls(calls')[1].resp)
                   /\ Len(SubmitCalls(calls')) = 1]_vars

\* C9 witness: Try Again, pressed on the message of a buy that failed at the
\* submit, ran a quote of its own and submitted a second transaction
C9_Witness ==
    /\ req.message = "BuyFailed"
    /\ req.data = TryAgainBuy(Float(1, 1))
    /\ Len(QuoteCalls(calls)) = 1
    /\ Len(SubmitCalls(calls)) = 1
    /\ Len(ledger) = 2


RECURSIVE SumAmounts(_, _)
SumAmounts(cs, S) ==
    IF S = {} THEN 0
    ELSE LET i == CHOOSE i \in S : TRUE
         IN  cs[i].amount + SumAmounts(cs, S \ {i})
AmountOf(row) == IF row = NoRow THEN 0 ELSE row.amount
CallsOn(k) == {i \in DOMAIN txn : txn[i].key = k}
Returned(k) == {i \in CallsOn(k) : txn[i].returned = "True"}
AllReturned == \A i \in DOMAIN txn : txn[i].pc = "done"

\* C10 as stated: once all N concurrent calls on a key have returned, the
\* row exists and its amount is the previous amount plus all N deltas
C10_SumOfAllDeltas ==
    AllReturned =>
        \A k \in StoreKeys :
            CallsOn(k) # {} =>
                /\ positions[k] # NoRow
                /\ positions[k].amount
                       = AmountOf(before[k]) + SumAmounts(txn, CallsOn(k))

\* C10 as amended: under every interleaving the amount of a key is the
\* previous amount plus the deltas of the calls that returned True, the row
\* exists once one of them did or if it existed before, and no other key's
\* row changes
C10_SumOfCommittedDeltas ==
    /\ \A k \in StoreKeys :
          /\ AmountOf(positions[k])
                 = AmountOf(before[k]) + SumAmounts(txn, Returned(k))
          /\ positions[k] # NoRow <=> (before[k] # NoRow \/ Returned(k) # {})
    /\ \A k \in DOMAIN positions : k \notin StoreKeys => positions[k] = before[k]

\* C10 witness: three calls on one key, in flight together, all returned
\* True; the third ran its statement first and the first ran it last
C10_Witness ==
    /\ Len(txn) = 3
    /\ AllReturned
    /\ \A i \in DOMAIN txn : txn[i].key = <<1, TokenA>> /\ txn[i].returned = "True"
    /\ txn[3].seen = before[<<1, TokenA>>]
    /\ AmountOf(txn[1].seen)
           = AmountOf(before[<<1, TokenA>>]) + txn[2].amount + txn[3].amount
    /\ positions[<<1, TokenA>>].amount
           = AmountOf(before[<<1, TokenA>>]) + SumAmounts(txn, {1, 2, 3})


\* C11: every User row has its Settings row, keyed by the same telegram_id,
\* and there is no Settings row without a User row
C11_OneSettingsRowPerUser ==
    \A u \in Users :
        /\ users[u] # NoRow <=> settings[u] # NoRow
        /\ settings[u] # NoRow => settings[u].telegram_id = u

\* C11 witness: a create_user that failed part-way left no row behind, next
\* to a registered user who has both rows
C11_Witness ==
    /\ op.name = "create_user"
    /\ op.fail \in {"execute", "commit"}
    /\ op.returned = FALSE
    /\ users[op.telegram_id] = NoRow
    /\ settings[op.telegram_id] = NoRow
    /\ \E u \in Users : users[u] # NoRow /\ settings[u] # NoRow

\* C12: every step leaves the Trade rows there were in place and unchanged;
\* the table only grows at its end
C12_TradesAppendOnly ==
    [][/\ Len(trades') >= Len(trades)
       /\ SubSeq(trades', 1, Len(trades)) = trades]_vars

\* C12 witness: two Trade rows are in the table and another operation has
\* been run after they were written
C12_Witness ==
    /\ Len(trades) = 2
    /\ op.name \in {"update_position", "delete_position", "update_settings",
                    "create_user"}
    /\ op.fail = "none"

\* C13: a User row, once there, never changes; create_user for an existing
\* telegram_id returns False and changes no table
C13_UserCreatedOnce ==
    [][/\ \A u \in Users : users[u] # NoRow => users'[u] = users[u]
       /\ (op'.name = "create_user" /\ users[op'.telegram_id] # NoRow)
              => op'.returned = FALSE /\ UNCHANGED store]_vars

\* C13 witness: create_user, called with another wallet for a registered
\* user while the store works, returned False and the first wallet is kept
C13_Witness ==
    /\ op.name = "create_user"
    /\ op.fail = "none"
    /\ op.returned = FALSE
    /\ users[op.telegram_id] # NoRow
    /\ users[op.telegram_id].private_key # op.arg


\* C14: get_positions returns only rows of the user asked for whose amount
\* is positive; a row leaves the table only by a delete_position of its key
C14_ListedPositionsArePositive ==
    [][/\ op'.name = "get_positions" =>
              \A k \in op'.returned :
                  /\ k[1] = op'.telegram_id
                  /\ positions[k] # NoRow
                  /\ positions[k].amount > 0
       /\ \A k \in DOMAIN positions :
              (positions[k] # NoRow /\ positions'[k] = NoRow)
                  => /\ op'.name = "delete_position"
                     /\ <<op'.telegram_id, op'.arg>> = k]_vars

\* C14 witness: get_positions listed a row of the user and left out a row of
\* the same user whose amount is zero or negative and which is still stored
C14_Witness ==
    /\ op.name = "get_positions"
    /\ op.fail = "none"
    /\ op.returned # {}
    /\ \E k \in DOMAIN positions :
          /\ k[1] = op.telegram_id
          /\ positions[k] # NoRow
          /\ positions[k].amount <= 0
          /\ k \notin op.returned

\* C16: no connection a store operation opened is open after it returned,
\* and an operation in which anything raised changes no table
C16_TransactionAndRelease ==
    /\ [](conns = 0)
    /\ [][(op'.name # "None" /\ op'.fail # "none") => UNCHANGED store]_vars

AllowList == {"slippage", "auto_buy_amount", "mev_protection", "priority_fee"}

\* C17: update_settings leaves users, trades, positions and the Settings
\* rows of other users unchanged, creates no row, and in the row of its
\* user changes exactly the allow-listed columns it was given, when it
\* commits
C17_UpdateSettingsFrame ==
    [][op'.name = "update_settings" =>
         LET t == op'.telegram_id
         IN  /\ UNCHANGED <<users, trades, positions>>
             /\ \A u \in Users : u # t => settings'[u] = settings[u]
             /\ settings[t] = NoRow => settings'[t] = NoRow
             /\ settings[t] # NoRow =>
                   /\ settings'[t] # NoRow
                   /\ DOMAIN settings'[t] = DOMAIN settings[t]
                   /\ \A c \in DOMAIN settings[t] :
                         settings'[t][c] =
                             IF c \in AllowList /\ c \in DOMAIN op'.arg
                                /\ op'.fail = "none"
                             THEN op'.arg[c] ELSE settings[t][c]]_vars

\* C17 witness: update_settings of user 1 with slippage and telegram_id set
\* the slippage and left the telegram_id
C17_Witness ==
    /\ op.name = "update_settings"
    /\ op.fail = "none"
    /\ op.telegram_id = 1
    /\ op.arg = [slippage |-> 5, telegram_id |-> 2]
    /\ settings[1] # NoRow
    /\ settings[1].slippage = 5
    /\ settings[1].telegram_id = 1

\* C18 as stated: a get_settings returns what the previous get_settings of
\* the user returned when no update_settings came between; a get_settings
\* right after update_settings of a registered user's slippage returns it
C18_GetSettingsRepeats ==
    [][op'.name = "get_settings" =>
         LET t == op'.telegram_id
         IN  /\ reads[t] # NoneDict => op'.returned = reads[t].value
             /\ (/\ op.name = "update_settings" /\ op.telegram_id = t
                 /\ "slippage" \in DOMAIN op.arg /\ users[t] # NoRow)
                    => op'.returned.slippage = op.arg.slippage]_vars

\* C18 as amended: the same for reads and updates in which nothing raised,
\* with no create_user of the user between the two reads
C18_SuccessfulReadsRepeat ==
    [][(op'.name = "get_settings" /\ op'.fail = "none") =>
         LET t == op'.telegram_id
         IN  /\ (reads[t] # NoneDict /\ reads[t].ok /\ ~reads[t].created)
                    => op'.returned = reads[t].value
             /\ (/\ op.name = "update_settings" /\ op.telegram_id = t
                 /\ op.fail = "none"
                 /\ "slippage" \in DOMAIN op.arg /\ users[t] # NoRow)
                    => op'.returned.slippage = op.arg.slippage]_vars

\* C18 witness: two get_settings of a registered user with a log_trade
\* between them; the second returned the user's row, as the first had
C18_Witness ==
    /\ op.name = "get_settings"
    /\ op.fail = "none"
    /\ reads[op.telegram_id].previous > 0
    /\ Len(trades) = 1
    /\ trades[1].signature.sig > reads[op.telegram_id].previous
    /\ op.returned = SettingsRow(op.telegram_id)


\* C15: the amount of a sell is floor(balance * percentage / 100): it is at
\* most the balance, and it is the balance when the percentage is 100
C15_SellAmountIsFloor ==
    op.name = "sell_amount" =>
        LET token_balance == op.arg[1]
            percentage == op.arg[2]
        IN  /\ op.returned = IntDivMod(IntMul(token_balance, percentage), 100).q
            /\ ~IntLess(token_balance, op.returned)
            /\ percentage = 100 => op.returned = token_balance

\* the text is not a decimal number (letters, nan, infinity), or is one
\* that is not greater than zero
NotAnAmount(text) ==
    LET amount == ParseFloat(ReplaceChar(text, ",", "."))
    IN  ~IsFinite(amount) \/ amount.n <= 0

\* C20: while the custom-amount prompt is pending, a text that is not a
\* number or is not positive is answered with the prompt again: the prompt
\* stays pending, the selected token is unchanged, and the request reads no
\* balance, calls no aggregator stage and writes nothing to the store or
\* the ledger
C20_InvalidAmountReprompted ==
    [][(/\ req'.kind = "message"
        /\ user_data[req'.user].awaiting_custom_amount
        /\ NotAnAmount(req'.data))
       => /\ reply'.kind \in {"InvalidAmount", "AmountNotPositive"}
          /\ user_data' = user_data
          /\ calls' = <<>>
          /\ UNCHANGED store
          /\ ledger' = ledger]_vars

IsLedgerRead(c) == c.stage \in {"get_balance", "get_token_balance"}
SessionKept(u) ==
    \/ user_data' = user_data
    \/ user_data' = [user_data EXCEPT ![u].awaiting_custom_amount = FALSE]

\* C19: a request in which a balance read raised goes on as if the balance
\* were zero: a reply that shows the balance shows 0.0, a buy is not run
\* (no quote, build or submit), a sell is answered that there is nothing to
\* sell, no trade or position is written, nothing is sent, the rows of
\* users and settings change only by the registration /start made before
\* the read, and the session changes only by the prompt the handler had
\* already consumed. A request that submits nothing leaves the ledger as it
\* was. A submit that raised ends the request as a failed trade carrying
\* the error, with no trade row
C19_LedgerFailuresContained ==
    [][/\ \A i \in 1..Len(calls') :
            (IsLedgerRead(calls'[i]) /\ calls'[i].resp = RpcError)
            => /\ "balance" \in DOMAIN reply' => reply'.balance = Zero
               /\ reply'.kind = "InsufficientFunds" => reply'.available = Zero
               /\ IsSellButton(req') => NoHoldings(reply')
               /\ reply'.kind \notin {"BuySuccess", "SellSuccess"}
               /\ AggregatorCalls(calls') = <<>>
               /\ trades' = trades /\ positions' = positions /\ ledger' = ledger
               /\ req'.data # <<"start">> => users' = users /\ settings' = settings
               /\ SessionKept(req'.user)
       /\ SubmitCalls(calls') = <<>> => ledger' = ledger
       /\ \A i \in 1..Len(calls') :
            (calls'[i].stage = "submit" /\ calls'[i].resp = RpcError)
            => /\ reply'.kind \in {"BuyFailed", "SellFailed"}
               /\ reply'.error = "RpcError"
               /\ UNCHANGED store]_vars

\* C19 witness: a buy whose balance read raised was refused with an
\* available balance of 0.0
C19_Witness ==
    /\ reply.kind = "InsufficientFunds"
    /\ reply.available = Zero
    /\ Len(calls) = 1
    /\ calls[1].stage = "get_balance"
    /\ calls[1].resp = RpcError

AmountReplies ==
    {"NoToken", "InvalidAmount", "AmountNotPositive", "NotRegistered",
     "InsufficientFunds", "BuySuccess", "BuyFailed"}
TokenInfoCalls(cl) == {i \in 1..Len(cl) : cl[i].stage = "token_info"}

\* C21: a text message is read as an amount exactly when the custom-amount
\* prompt is pending for its sender, also when the text is a well-formed
\* address: it is then answered as an amount, selects no token and looks
\* no token up, and the prompt is pending afterwards exactly when the
\* amount was refused as invalid or not positive. With no prompt pending,
\* the text is selected as the token and looked up exactly when it is 32 to
\* 44 characters long and parses as an address; otherwise the selected
\* token stays; in both cases no prompt becomes pending and no buy runs
C21_MessageInterpretation ==
    [][req'.kind = "message" =>
        LET u == req'.user
            text == req'.data
        IN  IF user_data[u].awaiting_custom_amount
            THEN /\ reply'.kind \in AmountReplies
                 /\ user_data'[u].current_token = user_data[u].current_token
                 /\ TokenInfoCalls(calls') = {}
                 /\ user_data'[u].awaiting_custom_amount
                        <=> reply'.kind \in {"InvalidAmount", "AmountNotPositive"}
            ELSE /\ reply'.kind \notin AmountReplies
                 /\ ~user_data'[u].awaiting_custom_amount
                 /\ UNCHANGED store /\ ledger' = ledger
                 /\ IF AddressLength(text) /\ PubkeyParses(text)
                    THEN /\ user_data'[u].current_token = text
                         /\ Len(calls') = 1
                         /\ calls'[1] \in
                               {token_info_call(text, a) : a \in TokenInfoAnswers}
                    ELSE /\ user_data'[u].current_token = user_data[u].current_token
                         /\ calls' = <<>>]_vars

\* C21 witness: with token A selected and the prompt pending, the address
\* of token B was sent and refused as an amount; token A stayed selected
C21_Witness ==
    /\ req.kind = "message"
    /\ req.data = TokenB
    /\ reply.kind = "InvalidAmount"
    /\ user_data[req.user].current_token = TokenA
    /\ user_data[req.user].awaiting_custom_amount

NewTrades == SubSeq(trades', Len(trades) + 1, Len(trades'))

\* C22: a request of one user leaves every other user's selected token,
\* pending prompt, User row, Settings row and Position rows as they were,
\* and every Trade row it appends carries the requester's own id and the
\* token selected in the requester's own session
C22_SessionsAreScoped ==
    [][/\ \A b \in Users \ {req'.user} :
            /\ user_data'[b] = user_data[b]
            /\ users'[b] = users[b]
            /\ settings'[b] = settings[b]
            /\ \A t \in Tokens : positions'[<<b, t>>] = positions[<<b, t>>]
       /\ Len(trades') >= Len(trades)
       /\ SubSeq(trades', 1, Len(trades)) = trades
       /\ \A i \in 1..Len(NewTrades) :
            /\ NewTrades[i].telegram_id = req'.user
            /\ NewTrades[i].token_address = user_data[req'.user].current_token]_vars

\* C22 witness: user 2 selected token B, then user 1 selected token A and
\* bought it; the trade is for token A under user 1, and user 2's
\* selection is still token B
C22_Witness ==
    /\ req.user = 1
    /\ reply.kind = "BuySuccess"
    /\ user_data[1].current_token = TokenA
    /\ user_data[2].current_token = TokenB
    /\ Len(trades) = 1
    /\ trades[1].telegram_id = 1
    /\ trades[1].token_address = TokenA

\* C23: the wallet address a /start reply shows is the wallet_address of
\* the User row the user has when the handler has finished
C23_ShownAddressIsStored ==
    reply.kind = "Welcome"
        => /\ users[reply.user] # NoRow
           /\ users[reply.user].wallet_address = reply.wallet_address

RowsWithSignature(sig) == {i \in 1..Len(trades) : trades[i].signature = sig}

\* C24: a request answered with a successful buy or sell has exactly one
\* Trade row carrying the signature it reports
C24_SuccessHasTradeRow ==
    reply.kind \in {"BuySuccess", "SellSuccess"}
        => Cardinality(RowsWithSignature(reply.signature)) = 1

\* C28: every quote a sell asks for is for an amount of at least 1
C28_SellQuotesAtLeastOne ==
    \A i \in 1..Len(calls) :
        (calls[i].stage = "quote" /\ calls[i].outputMint = SOL_MINT)
            => DigitsValue(calls[i].amount) >= 1

BoughtBy(u) ==
    {trades[i].token_address :
        i \in {j \in 1..Len(trades) :
                 trades[j].telegram_id = u /\ trades[j].trade_type = "BUY"}}

\* C25: a button pressed on the message that carried it is handled, and
\* /sell or the Sell button, used by a user who has bought a token, lists
\* a button for that token
C25_SellPathExists ==
    /\ (req.kind = "callback" /\ req.message # "None") => reply.kind # "Nothing"
    /\ reply.kind \in {"SelectToken", "NoPositions"}
          => \A t \in BoughtBy(reply.user) : SellTokenData(t) \in reply.buttons

\* C26: a buy button pressed on the info message of a token buys that
\* token: the quote of the request, and the Trade row it appends, are for
\* the token of the message
C26_BuysTheTokenOfTheMessage ==
    [][(IsBuyButton(req') /\ req'.on # None)
       => /\ \A i \in 1..Len(calls') :
                calls'[i].stage = "quote" => calls'[i].outputMint = req'.on
          /\ \A i \in 1..Len(NewTrades) :
                NewTrades[i].token_address = req'.on]_vars

\* C27: while the custom-amount prompt is pending, a button press or a
\* command of the user clears it, so that the next text is read as a token
\* address
C27_ButtonsClearThePrompt ==
    [][(user_data[req'.user].awaiting_custom_amount
            /\ req'.kind \in {"callback", "command"})
       => ~user_data'[req'.user].awaiting_custom_amount]_vars

ValidToken(t) == Len(t) >= 32 /\ Len(t) <= 44 /\ PubkeyParses(t)

\* C29: in every state a pending custom-amount prompt has a selected
\* token, and a selected token is 32 to 44 characters long and parses as
\* an address; the custom-amount path never answers that no token is
\* selected; no step clears a selected token, and a text that fails the
\* validation leaves the selected token as it was
C29_SessionInvariants ==
    /\ [](\A u \in Users :
            /\ user_data[u].awaiting_custom_amount
                   => user_data[u].current_token # None
            /\ user_data[u].current_token # None
                   => ValidToken(user_data[u].current_token))
    /\ []((req.kind = "message") => reply.kind # "NoToken")
    /\ [][\A u \in Users :
            /\ user_data[u].current_token # None
                   => user_data'[u].current_token # None
            /\ (req'.kind = "message" /\ ~ValidToken(req'.data))
                   => user_data'[u].current_token = user_data[u].current_token]_vars

\* C29 witness: with token A selected, a text of 33 characters that does
\* not parse was refused, and token A is still selected
C29_Witness ==
    /\ req.kind = "message"
    /\ req.data = Rep("1", 32) \o <<"A">>
    /\ reply.kind = "InvalidAddress"
    /\ user_data[req.user].current_token = TokenA

\* C30: a reply carries a private key only when it answers an export_key
\* press; the key is the one stored in the row of the user who pressed,
\* and it is no other user's key; a user without a row is sent no key
C30_KeySentToOwnerOnly ==
    "private_key" \in DOMAIN reply
        => /\ req.kind = "callback"
           /\ req.data = D_export_key
           /\ reply.user = req.user
           /\ users[req.user] # NoRow
           /\ reply.private_key = users[req.user].private_key
           /\ \A b \in Users \ {req.user} :
                 users[b] # NoRow => reply.private_key # users[b].private_key

\* C30 witness: with both users registered, user 1 pressed Export Key on
\* the wallet message and was sent the key of user 1's row
C30_Witness ==
    /\ users[1] # NoRow
    /\ users[2] # NoRow
    /\ req.user = 1
    /\ req.data = D_export_key
    /\ req.message = "Wallet"
    /\ reply.kind = "PrivateKey"
    /\ reply.private_key = users[1].private_key
====
